---- MODULE Spec2Model ----
(***************************************************************************)
(* Conversation orchestration and file-backed persistence of ai-talk-js:   *)
(* FileMessageStorage (the Message Store and the Request Store),           *)
(* LLMService.sendMessage / storeRequest, PromptService.loadPrompt and     *)
(* ChatService.  Every asynchronous call is a task; a task moves from one  *)
(* await of an I/O operation to the next in one step, so overlapping calls *)
(* interleave exactly at the awaits of the source.                         *)
(***************************************************************************)
EXTENDS Integers, Sequences, FiniteSets, TLC

VARIABLES
  msgFile,         \* parsed content of the Message Store's file (messages.json)
  reqFile,         \* parsed content of the Request Store's file (requests.json)
  requestStorage,  \* TRUE iff ChatService / LLMService were given a request storage
  additionalModel, \* config.additionalModel of the LLMService, or undefined
  pc,              \* pc[t]: the await at which call t is suspended
  call,            \* call[t]: arguments, locals and outcome of call t
  lastId           \* id returned by the latest completed append on the Message
                   \* Store since its latest clear (0 if none): history variable

vars == <<msgFile, reqFile, requestStorage, additionalModel, pc, call, lastId>>

(***************************************************************************)
(* Bounds of the model                                                     *)
(***************************************************************************)
\* a call that appends to the Message Store starts only below this length
MaxLen == 2
\* a call that logs to the Request Store starts only below this length
MaxReq == 2

Tasks == {"t1", "t2"}

(***************************************************************************)
(* JavaScript values                                                       *)
(***************************************************************************)
Undefined == "undefined"      \* an absent property / parameter
Now == "now"                  \* new Date().toISOString()
Given == "given"              \* a timestamp supplied by the caller
NoId == 0                     \* the fields passed to addMessage carry no id
Null == <<>>                  \* quantity = null;  a number n is <<n>>

\* !x for the strings of the model
Falsy(x) == x = "" \/ x = Undefined

Range(s) == {s[i] : i \in 1..Len(s)}

Max(S) == CHOOSE x \in S : \A y \in S : y <= x

Min2(a, b) == IF a < b THEN a ELSE b

Max2(a, b) == IF a > b THEN a ELSE b

Reverse(s) == [i \in 1..Len(s) |-> s[Len(s) + 1 - i]]

\* mutant of Slice: the elements before the start position
SliceBefore(s, start) ==
  LET n == Len(s)
      k == IF start < 0 THEN Max2(n + start, 0) ELSE Min2(start, n)
  IN  SubSeq(s, 1, n - k)

\* Array.prototype.slice(start)
Slice(s, start) ==
  LET n == Len(s)
      k == IF start < 0 THEN Max2(n + start, 0) ELSE Min2(start, n)
  IN  SubSeq(s, k + 1, n)

(***************************************************************************)
(* FileMessageStorage                                                      *)
(***************************************************************************)
\* content of a file that JSON.parse rejects; no record that addMessage writes is
\* without an id, so no written file holds it
Unparsable == [id |-> NoId, role |-> Undefined, content |-> "<unparsable>", timestamp |-> Undefined]

\* what stands for a file that does not exist: the path of the store names no file
Missing == [id |-> NoId, role |-> Undefined, content |-> "<no file>", timestamp |-> Undefined]

\* fs.access and fs.readFile find the file
Exists(file) == file # <<Missing>>

\* JSON.parse(data) returns
Parsable(file) == \A i \in 1..Len(file) : file[i] # Unparsable

\* readMessages once readFile has returned: the parsed record set of the file, or []
\* when JSON.parse throws
ReadMessages(file) == IF Parsable(file) THEN file ELSE <<>>

\* mutant of MaxId: the number of records
MaxIdByLength(messages) == Len(messages)

\* Math.max(...messages.map(m => m.id)) or 0
MaxId(messages) ==
  IF Len(messages) > 0 THEN Max({messages[i].id : i \in 1..Len(messages)}) ELSE 0

\* { id: maxId + 1, ...message, timestamp: message.timestamp || now }
NewMessage(messages, message) ==
  [message EXCEPT
     !.id = IF message.id # NoId THEN message.id ELSE MaxId(messages) + 1,
     !.timestamp = IF Falsy(message.timestamp) THEN Now ELSE message.timestamp]

\* mutant of Pushed: the new record is put before the records read
PushedFirst(messages, message) == <<NewMessage(messages, message)>> \o messages

\* mutant of Pushed: the write holds only the new record
PushedAlone(messages, message) == <<NewMessage(messages, message)>>

\* messages.push(newMessage): the record set addMessage writes back
Pushed(messages, message) == Append(messages, NewMessage(messages, message))

\* mutant of GetMessages: without a quantity the order requested is ignored
GetMessagesOldestFirst(messages, quantity, reverseOrder) ==
  IF quantity # Null /\ quantity[1] # 0
    THEN LET recentMessages == Slice(messages, 0 - quantity[1])
         IN  IF reverseOrder THEN Reverse(recentMessages) ELSE recentMessages
    ELSE messages

\* mutant of GetMessages: the quantity 0 is sliced like any other number
GetMessagesNoneForZero(messages, quantity, reverseOrder) ==
  IF quantity # Null
    THEN LET recentMessages == IF quantity[1] = 0 THEN <<>>
                               ELSE Slice(messages, 0 - quantity[1])
         IN  IF reverseOrder THEN Reverse(recentMessages) ELSE recentMessages
    ELSE IF reverseOrder THEN Reverse(messages) ELSE messages

\* getMessages(quantity, reverseOrder) on the record set read
GetMessages(messages, quantity, reverseOrder) ==
  IF quantity # Null /\ quantity[1] # 0
    THEN LET recentMessages == Slice(messages, 0 - quantity[1])
         IN  IF reverseOrder THEN Reverse(recentMessages) ELSE recentMessages
    ELSE IF reverseOrder THEN Reverse(messages) ELSE messages

(***************************************************************************)
(* Calls                                                                   *)
(***************************************************************************)
NoMessage == [id |-> NoId, role |-> Undefined, content |-> Undefined, timestamp |-> Undefined]

NoError == "none"

\* the error fs.readFile rejects with
ErrRead == "readFile failed"

\* the error of a writeFile that throws
ErrWrite == "writeFile failed"

\* response.data of the completion endpoint: the body may be null, may lack choices,
\* and a choice may lack its message
NullBody == [isNull |-> TRUE, hasChoices |-> FALSE, choices |-> <<>>]

\* the record of a task that runs no call
Idle ==
  [op        |-> "none",      \* the operation called
   message   |-> NoMessage,   \* fields passed to the store's addMessage
   quantity  |-> Null,        \* getMessages: quantity
   reverse   |-> FALSE,       \* getMessages: reverseOrder
   toWrite   |-> <<>>,        \* addMessage: the record set about to be written
   result    |-> NoMessage,   \* the record the call returned
   list      |-> <<>>,        \* the record list the call returned
   error     |-> NoError,     \* message of the Error the call threw
   content   |-> Undefined,   \* processUserMessage: userContent
   role      |-> Undefined,   \* processUserMessage: userRole
   timestamp |-> Undefined,   \* ChatService.addMessage: messageData.timestamp
   options   |-> [model |-> Undefined],  \* LLMService calls: options
   body      |-> [messages |-> <<>>, model |-> Undefined],  \* sendMessage: requestBody
   sysLoaded |-> FALSE,       \* prepareConversationHistory: the system prompt was loaded
   welcomeLoaded |-> FALSE,   \* clearAllMessages: the welcome content was loaded
   upstream  |-> "none",      \* outcome of axios.post: "none", "failed", "returned" (history)
   messages  |-> <<>>,        \* sendMessage: the messages sent upstream
   response  |-> NullBody,  \* sendMessage: response.data
   pending   |-> {},          \* clearAllMessages: the stores whose clear is in flight
   pre       |-> <<>>,        \* Message Store when the call started (history)
   preReq    |-> <<>>,        \* Request Store when the call started (history)
   llmCalls  |-> 0,           \* upstream requests issued by the call (history)
   sent      |-> "none",      \* outcome of sendMessage: "none", "threw", "returned" (history)
   logFailed |-> FALSE,       \* storeRequest caught a failure of the request storage (history)
   events    |-> <<>>]        \* the effects of the call so far, in their order (history)

(***************************************************************************)
(* Direct calls of the Message Store's interface:                          *)
(* addMessage (append), clearMessages (clear), getMessages (read)          *)
(***************************************************************************)
\* the fields a caller passes to addMessage: turn fields, with and without a timestamp
TurnFields ==
  {[id |-> NoId, role |-> "user", content |-> "a", timestamp |-> Undefined],
   [id |-> NoId, role |-> "assistant", content |-> "b", timestamp |-> Given]}

\* fields that also carry a property named id
IdFields ==
  {[id |-> 3, role |-> "user", content |-> "a", timestamp |-> Given]}

Quantities == {Null, <<0>>, <<1>>, <<2>>, <<4>>}

\* addMessage(message) is called: readMessages is issued
AppendStart(t, message) ==
  /\ pc[t] = "idle"
  /\ Len(msgFile) < MaxLen
  /\ pc' = [pc EXCEPT ![t] = "append_read"]
  /\ call' = [call EXCEPT ![t] = [Idle EXCEPT !.op = "append", !.message = message,
                                             !.pre = msgFile]]
  /\ UNCHANGED <<msgFile, reqFile, requestStorage, additionalModel, lastId>>

\* readMessages returns; the new record is built and pushed; writeMessages is issued
AppendRead(t) ==
  /\ pc[t] = "append_read"
  /\ Exists(msgFile)
  /\ LET messages == ReadMessages(msgFile)
     IN  call' = [call EXCEPT ![t].toWrite = Pushed(messages, call[t].message),
                              ![t].result = NewMessage(messages, call[t].message)]
  /\ pc' = [pc EXCEPT ![t] = "append_write"]
  /\ UNCHANGED <<msgFile, reqFile, requestStorage, additionalModel, lastId>>

\* writeMessages replaces the file; addMessage returns newMessage
AppendWrite(t) ==
  /\ pc[t] = "append_write"
  /\ msgFile' = call[t].toWrite
  /\ lastId' = call[t].result.id
  /\ pc' = [pc EXCEPT ![t] = "done"]
  /\ call' = [call EXCEPT ![t].toWrite = <<>>]
  /\ UNCHANGED <<reqFile, requestStorage, additionalModel>>

\* clearMessages() is called: writeMessages([]) is issued
ClearStart(t) ==
  /\ pc[t] = "idle"
  /\ pc' = [pc EXCEPT ![t] = "clear_write"]
  /\ call' = [call EXCEPT ![t] = [Idle EXCEPT !.op = "clear"]]
  /\ UNCHANGED <<msgFile, reqFile, requestStorage, additionalModel, lastId>>

\* writeMessages([]) replaces the file; clearMessages returns
ClearWrite(t) ==
  /\ pc[t] = "clear_write"
  /\ msgFile' = <<>>
  /\ lastId' = 0
  /\ pc' = [pc EXCEPT ![t] = "done"]
  /\ UNCHANGED <<reqFile, requestStorage, additionalModel, call>>

\* getMessages(quantity, reverseOrder) is called: readMessages is issued
GetStart(t, quantity, reverseOrder) ==
  /\ pc[t] = "idle"
  /\ pc' = [pc EXCEPT ![t] = "get_read"]
  /\ call' = [call EXCEPT ![t] = [Idle EXCEPT !.op = "get", !.quantity = quantity,
                                             !.reverse = reverseOrder, !.pre = msgFile]]
  /\ UNCHANGED <<msgFile, reqFile, requestStorage, additionalModel, lastId>>

\* readMessages returns; getMessages returns the requested slice
GetRead(t) ==
  /\ pc[t] = "get_read"
  /\ Exists(msgFile)
  /\ call' = [call EXCEPT ![t].list =
                 GetMessages(ReadMessages(msgFile), call[t].quantity, call[t].reverse)]
  /\ pc' = [pc EXCEPT ![t] = "done"]
  /\ UNCHANGED <<msgFile, reqFile, requestStorage, additionalModel, lastId>>

\* the caller has consumed the outcome of the call
Return(t) ==
  /\ pc[t] = "done"
  /\ pc' = [pc EXCEPT ![t] = "idle"]
  /\ call' = [call EXCEPT ![t] = Idle]
  /\ UNCHANGED <<msgFile, reqFile, requestStorage, additionalModel, lastId>>

\* addMessage: readFile throws, and so do readMessages and addMessage
AppendReadFails(t) ==
  /\ pc[t] = "append_read"
  /\ call' = [call EXCEPT ![t].error = ErrRead]
  /\ pc' = [pc EXCEPT ![t] = "done"]
  /\ UNCHANGED <<msgFile, reqFile, requestStorage, additionalModel, lastId>>

\* getMessages: readFile throws, and so do readMessages and getMessages
GetReadFails(t) ==
  /\ pc[t] = "get_read"
  /\ call' = [call EXCEPT ![t].error = ErrRead]
  /\ pc' = [pc EXCEPT ![t] = "done"]
  /\ UNCHANGED <<msgFile, reqFile, requestStorage, additionalModel, lastId>>

\* no other call is in flight or unreturned
Alone(t) == \A u \in Tasks \ {t} : pc[u] = "idle"

StoreInit ==
  /\ msgFile = <<>>
  /\ reqFile = <<>>
  /\ requestStorage = FALSE
  /\ additionalModel = Undefined
  /\ pc = [t \in Tasks |-> "idle"]
  /\ call = [t \in Tasks |-> Idle]
  /\ lastId = 0

\* overlapping addMessage and getMessages calls on one store, with the turn fields
\* the services of the repository pass; no clear
AppendNext ==
  \E t \in Tasks :
    \/ \E message \in TurnFields : AppendStart(t, message)
    \/ AppendRead(t)
    \/ AppendWrite(t)
    \/ \E quantity \in {Null, <<1>>}, reverseOrder \in BOOLEAN :
          GetStart(t, quantity, reverseOrder)
    \/ GetRead(t)
    \/ Return(t)

AppendSpec == StoreInit /\ [][AppendNext]_vars

\* calls of the store's interface with any fields, one call at a time
StoreSeqNext ==
  \E t \in Tasks :
    \/ \E message \in TurnFields \cup IdFields : Alone(t) /\ AppendStart(t, message)
    \/ AppendRead(t)
    \/ AppendWrite(t)
    \/ Alone(t) /\ ClearStart(t)
    \/ ClearWrite(t)
    \/ \E quantity \in Quantities, reverseOrder \in BOOLEAN :
          Alone(t) /\ GetStart(t, quantity, reverseOrder)
    \/ GetRead(t)
    \/ Return(t)

StoreSeqSpec == StoreInit /\ [][StoreSeqNext]_vars

\* the contents the file of a store may have when the service starts: an empty or
\* a non-empty record set, or text that cannot be parsed
Files == {<<>>, Pushed(<<>>, CHOOSE m \in TurnFields : m.role = "user"), <<Unparsable>>}

FilesInit ==
  /\ msgFile \in Files
  /\ reqFile = <<>>
  /\ requestStorage = FALSE
  /\ additionalModel = Undefined
  /\ pc = [t \in Tasks |-> "idle"]
  /\ call = [t \in Tasks |-> Idle]
  /\ lastId = 0

\* appends and reads of a store over such a file, one call at a time, with reads of
\* the file that may fail
FilesNext ==
  \E t \in Tasks :
    \/ \E message \in TurnFields : Alone(t) /\ AppendStart(t, message)
    \/ AppendRead(t)
    \/ AppendReadFails(t)
    \/ AppendWrite(t)
    \/ \E quantity \in Quantities, reverseOrder \in BOOLEAN :
          Alone(t) /\ GetStart(t, quantity, reverseOrder)
    \/ GetRead(t)
    \/ GetReadFails(t)
    \/ Return(t)

FilesSpec == FilesInit /\ [][FilesNext]_vars

\* writeMessages -> fs.writeFile has opened the file, which truncates it: until the
\* data is written the file holds text that cannot be parsed
WriteOpens(t) ==
  /\ pc[t] = "append_write"
  /\ msgFile' = <<Unparsable>>
  /\ pc' = [pc EXCEPT ![t] = "append_flush"]
  /\ UNCHANGED <<reqFile, requestStorage, additionalModel, call, lastId>>

\* fs.writeFile has written the data; addMessage returns newMessage
WriteCompletes(t) ==
  /\ pc[t] = "append_flush"
  /\ msgFile' = call[t].toWrite
  /\ lastId' = call[t].result.id
  /\ pc' = [pc EXCEPT ![t] = "done"]
  /\ call' = [call EXCEPT ![t].toWrite = <<>>]
  /\ UNCHANGED <<reqFile, requestStorage, additionalModel>>

\* overlapping addMessage and getMessages calls on one store, with the two steps of
\* fs.writeFile; to keep the store within the bound of the model, calls of
\* addMessage are made while no write is under way
TornNext ==
  \E t \in Tasks :
    \/ \E message \in TurnFields : Parsable(msgFile) /\ AppendStart(t, message)
    \/ AppendRead(t)
    \/ WriteOpens(t)
    \/ WriteCompletes(t)
    \/ \E reverseOrder \in BOOLEAN : GetStart(t, Null, reverseOrder)
    \/ GetRead(t)
    \/ Return(t)

TornSpec == StoreInit /\ [][TornNext]_vars

\* no other call is in flight; a caller may still hold what its last call returned
Quiet(t) == \A u \in Tasks \ {t} : pc[u] \in {"idle", "done"}

\* appends and clears of one store, one call at a time, by callers that keep the
\* record their append returned
ClearNext ==
  \E t \in Tasks :
    \/ \E message \in TurnFields \cup IdFields : Quiet(t) /\ AppendStart(t, message)
    \/ AppendRead(t)
    \/ AppendWrite(t)
    \/ Quiet(t) /\ ClearStart(t)
    \/ ClearWrite(t)
    \/ Return(t)

ClearSpec == StoreInit /\ [][ClearNext]_vars

(***************************************************************************)
(* PromptService and the completion endpoint                               *)
(***************************************************************************)
SystemPrompt == "<system.prompt.xml>"

InitialMessage == "<initial-message.html>"

Reply == "reply"

Choice(hasMessage, content) == [hasMessage |-> hasMessage, content |-> content]

Body(choices) == [isNull |-> FALSE, hasChoices |-> TRUE, choices |-> choices]

ValidCompletion == Body(<<Choice(TRUE, Reply)>>)

ZeroChoices == Body(<<>>)

MissingChoices == [isNull |-> FALSE, hasChoices |-> FALSE, choices |-> <<>>]

NoMessageChoice == Body(<<Choice(FALSE, Undefined)>>)

EmptyContent == Body(<<Choice(TRUE, "")>>)

\* the bodies a 2xx answer of the endpoint may carry
Completions ==
  {ValidCompletion, ZeroChoices, MissingChoices, NullBody, NoMessageChoice, EmptyContent}

(***************************************************************************)
(* LLMService                                                              *)
(***************************************************************************)
ErrTransport == "LLM API call failed: Failed to get LLM response"

ErrInvalid == "LLM API call failed: Invalid response from LLM service"

ErrRequired == "Message content is required"

ErrType == "TypeError"

\* requestBody of sendMessage(messages) with no options
RequestBody(messages) == [messages |-> messages, model |-> "model"]

\* request.messages.filter(msg => msg.role === 'user')
RECURSIVE UserMessages(_)
UserMessages(messages) ==
  IF messages = <<>> THEN <<>>
  ELSE IF messages[1].role = "user"
         THEN <<messages[1]>> \o UserMessages(Tail(messages))
         ELSE UserMessages(Tail(messages))

\* storeRequest: content of the last message of role 'user' in the request, or ''
LastUserMessage(request) ==
  LET userMessages == UserMessages(request.messages)
  IN  IF Len(userMessages) > 0 THEN userMessages[Len(userMessages)].content ELSE ""

\* text.split(' ') for the contents of the model, which hold no space
Split(text) == <<text>>

\* text.length for the contents of the model
Length(text) == IF text = "" THEN 0 ELSE 1

\* words.join(' ') for a single word
Join(words) == words[1]

\* storeRequest: the first five words joined, and whether '...' is appended
Title(lastUserMessage) ==
  LET words == Split(lastUserMessage)
      titleWords == Join(SubSeq(words, 1, Min2(5, Len(words))))
  IN  [words |-> titleWords, ellipsis |-> Length(lastUserMessage) > Length(titleWords)]

\* storeRequest: reading response.choices[0].message.content throws a TypeError
\* inside its try block when the body is null or the first choice has no message
StoreRequestThrows(response) ==
  \/ response.isNull
  \/ response.hasChoices /\ Len(response.choices) > 0 /\ ~response.choices[1].hasMessage

\* storeRequest: the fields passed to requestStorage.addMessage
RequestEntry(request, response) ==
  [id |-> NoId,
   title |-> Title(LastUserMessage(request)),
   content |-> [request |-> request, response |-> response],
   timestamp |-> Now]

(***************************************************************************)
(* ChatService                                                             *)
(***************************************************************************)
\* mutant of ValidContent: only a missing content is rejected
ValidContentUnlessMissing(content) == content # Undefined

\* validateUserMessage / validateMessageContent: the content passes
ValidContent(content) == ~Falsy(content)

\* validateLLMResponse: the response passes
ValidLLMResponse(response) ==
  ~response.isNull /\ response.hasChoices /\ Len(response.choices) # 0

\* msg => ({ role: msg.role, content: msg.content })
RoleContent(msgs) == [i \in 1..Len(msgs) |-> [role |-> msgs[i].role, content |-> msgs[i].content]]

\* mutant of ConversationHistory: the system prompt is appended after the turns
ConversationHistorySystemLast(sysLoaded, previousMessages, userContent, userRole) ==
  IF sysLoaded
    THEN RoleContent(previousMessages) \o <<[role |-> "system", content |-> SystemPrompt]>>
    ELSE RoleContent(previousMessages) \o <<[role |-> userRole, content |-> userContent]>>

\* prepareConversationHistory: the history returned, given the record set read
ConversationHistory(sysLoaded, previousMessages, userContent, userRole) ==
  IF sysLoaded
    THEN <<[role |-> "system", content |-> SystemPrompt]>> \o RoleContent(previousMessages)
    ELSE RoleContent(previousMessages) \o <<[role |-> userRole, content |-> userContent]>>

\* storeUserMessage / storeAssistantMessage: the fields passed to addMessage
TurnOf(content, role) == [id |-> NoId, role |-> role, content |-> content, timestamp |-> Now]

\* mutant of FormatMessage: role and timestamp are passed on as given
FormatMessageAsGiven(messageData) ==
  [id |-> NoId,
   content |-> messageData.content,
   role |-> messageData.role,
   timestamp |-> messageData.timestamp]

\* formatMessage
FormatMessage(messageData) ==
  [id |-> NoId,
   content |-> messageData.content,
   role |-> IF Falsy(messageData.role) THEN "user" ELSE messageData.role,
   timestamp |-> IF Falsy(messageData.timestamp) THEN Now ELSE messageData.timestamp]

\* addMessage after readMessages has returned: the locals of call c, given the file read
AfterRead(c, file) ==
  [c EXCEPT !.toWrite = Pushed(ReadMessages(file), c.message),
            !.result = NewMessage(ReadMessages(file), c.message)]

\* processUserMessage(userContent, userRole) is called: validateUserMessage, then
\* storeUserMessage calls messageStorage.addMessage
ProcessStart(t, userContent, userRole) ==
  /\ pc[t] = "idle"
  /\ LET c == [Idle EXCEPT !.op = "processUserMessage", !.content = userContent,
                           !.role = userRole, !.pre = msgFile, !.preReq = reqFile]
     IN  IF ValidContent(userContent)
           THEN /\ call' = [call EXCEPT ![t] =
                              [c EXCEPT !.message = TurnOf(userContent, userRole)]]
                /\ pc' = [pc EXCEPT ![t] = "user_read"]
           ELSE /\ call' = [call EXCEPT ![t] = [c EXCEPT !.error = ErrRequired]]
                /\ pc' = [pc EXCEPT ![t] = "done"]
  /\ UNCHANGED <<msgFile, reqFile, requestStorage, additionalModel, lastId>>

\* storeUserMessage: readMessages returns, writeMessages is issued
UserRead(t) ==
  /\ pc[t] = "user_read"
  /\ call' = [call EXCEPT ![t] = AfterRead(call[t], msgFile)]
  /\ pc' = [pc EXCEPT ![t] = "user_write"]
  /\ UNCHANGED <<msgFile, reqFile, requestStorage, additionalModel, lastId>>

\* storeUserMessage -> addMessage: readFile throws; the error leaves addMessage,
\* storeUserMessage and processUserMessage
UserReadFails(t) ==
  /\ pc[t] = "user_read"
  /\ call' = [call EXCEPT ![t].error = ErrRead]
  /\ pc' = [pc EXCEPT ![t] = "done"]
  /\ UNCHANGED <<msgFile, reqFile, requestStorage, additionalModel, lastId>>

\* mutant of UserWriteFails: the failure of the write is not awaited and the call
\* goes on with prepareConversationHistory
UserWriteFailsUnnoticed(t) ==
  /\ pc[t] = "user_write"
  /\ call' = [call EXCEPT ![t].toWrite = <<>>]
  /\ pc' = [pc EXCEPT ![t] = "prompt"]
  /\ UNCHANGED <<msgFile, reqFile, requestStorage, additionalModel, lastId>>

\* storeUserMessage -> addMessage: writeFile throws and the file is as it was; the
\* error leaves addMessage, storeUserMessage and processUserMessage
UserWriteFails(t) ==
  /\ pc[t] = "user_write"
  /\ call' = [call EXCEPT ![t].toWrite = <<>>, ![t].error = ErrWrite]
  /\ pc' = [pc EXCEPT ![t] = "done"]
  /\ UNCHANGED <<msgFile, reqFile, requestStorage, additionalModel, lastId>>

\* storeUserMessage: the write is done; prepareConversationHistory calls loadPrompt
UserWrite(t) ==
  /\ pc[t] = "user_write"
  /\ msgFile' = call[t].toWrite
  /\ lastId' = call[t].result.id
  /\ call' = [call EXCEPT ![t].toWrite = <<>>,
                          ![t].events = Append(call[t].events, "user turn")]
  /\ pc' = [pc EXCEPT ![t] = "prompt"]
  /\ UNCHANGED <<reqFile, requestStorage, additionalModel>>

\* mutant of LoadSystemPrompt: a failure to load the system prompt is thrown
LoadSystemPromptRaises(t, loaded) ==
  /\ pc[t] = "prompt"
  /\ IF loaded
       THEN /\ call' = [call EXCEPT ![t].sysLoaded = TRUE]
            /\ pc' = [pc EXCEPT ![t] = "history_read"]
       ELSE /\ call' = [call EXCEPT ![t].error = "Failed to load prompt"]
            /\ pc' = [pc EXCEPT ![t] = "done"]
  /\ UNCHANGED <<msgFile, reqFile, requestStorage, additionalModel, lastId>>

\* prepareConversationHistory: loadPrompt('system.prompt.xml') returns or throws; in
\* both branches messageStorage.getMessages() is called next
LoadSystemPrompt(t, loaded) ==
  /\ pc[t] = "prompt"
  /\ call' = [call EXCEPT ![t].sysLoaded = loaded]
  /\ pc' = [pc EXCEPT ![t] = "history_read"]
  /\ UNCHANGED <<msgFile, reqFile, requestStorage, additionalModel, lastId>>

\* prepareConversationHistory returns; getLLMResponse -> sendMessage posts the request
HistoryRead(t) ==
  /\ pc[t] = "history_read"
  /\ call' = [call EXCEPT
       ![t].messages = ConversationHistory(call[t].sysLoaded,
                          GetMessages(ReadMessages(msgFile), Null, FALSE),
                          call[t].content, call[t].role),
       ![t].llmCalls = call[t].llmCalls + 1,
       ![t].events = Append(call[t].events, "request posted")]
  /\ pc' = [pc EXCEPT ![t] = "llm"]
  /\ UNCHANGED <<msgFile, reqFile, requestStorage, additionalModel, lastId>>

\* mutant of LLMFails: after a failure the call builds its context again and posts
\* a new request, any number of times
LLMFailsStartsOver(t) ==
  /\ pc[t] = "llm"
  /\ call' = [call EXCEPT ![t].messages = <<>>, ![t].llmCalls = 0,
                          ![t].events = <<"user turn">>]
  /\ pc' = [pc EXCEPT ![t] = "history_read"]
  /\ UNCHANGED <<msgFile, reqFile, requestStorage, additionalModel, lastId>>

\* mutant of LLMFails: the failure is swallowed and an empty reply is stored
LLMFailsSwallowed(t) ==
  /\ pc[t] = "llm"
  /\ call' = [call EXCEPT ![t].upstream = "failed",
                          ![t].message = TurnOf("", "assistant")]
  /\ pc' = [pc EXCEPT ![t] = "assistant_read"]
  /\ UNCHANGED <<msgFile, reqFile, requestStorage, additionalModel, lastId>>

\* mutant of LLMFails: a failed request is posted once more before the error is thrown
LLMFailsRetries(t) ==
  /\ pc[t] = "llm"
  /\ IF call[t].llmCalls < 2
       THEN /\ call' = [call EXCEPT ![t].llmCalls = call[t].llmCalls + 1]
            /\ pc' = pc
       ELSE /\ call' = [call EXCEPT ![t].error = ErrTransport, ![t].upstream = "failed",
                                    ![t].sent = "threw"]
            /\ pc' = [pc EXCEPT ![t] = "done"]
  /\ UNCHANGED <<msgFile, reqFile, requestStorage, additionalModel, lastId>>

\* axios.post throws: sendMessage throws, getLLMResponse rethrows
LLMFails(t) ==
  /\ pc[t] = "llm"
  /\ call' = [call EXCEPT ![t].error = ErrTransport, ![t].upstream = "failed",
                          ![t].sent = "threw"]
  /\ pc' = [pc EXCEPT ![t] = "done"]
  /\ UNCHANGED <<msgFile, reqFile, requestStorage, additionalModel, lastId>>

\* mutant of AfterSend: a response that fails validateLLMResponse is stored as an
\* assistant turn of empty content
AfterSendUnvalidated(c, response) ==
  IF ~ValidLLMResponse(response)
    THEN [pc |-> "assistant_read", call |-> [c EXCEPT !.message = TurnOf("", "assistant")]]
  ELSE IF ~response.choices[1].hasMessage
    THEN [pc |-> "done", call |-> [c EXCEPT !.error = ErrType]]
  ELSE [pc |-> "assistant_read",
        call |-> [c EXCEPT !.message = TurnOf(response.choices[1].content, "assistant")]]

\* sendMessage has returned response: validateLLMResponse, extractAssistantContent,
\* then storeAssistantMessage calls messageStorage.addMessage
AfterSend(c, response) ==
  IF ~ValidLLMResponse(response)
    THEN [pc |-> "done", call |-> [c EXCEPT !.error = ErrInvalid]]
  ELSE IF ~response.choices[1].hasMessage
    THEN [pc |-> "done", call |-> [c EXCEPT !.error = ErrType]]
  ELSE [pc |-> "assistant_read",
        call |-> [c EXCEPT !.message = TurnOf(response.choices[1].content, "assistant")]]

\* mutant of LLMResponds: sendMessage returns without calling storeRequest
LLMRespondsUnlogged(t, response) ==
  /\ pc[t] = "llm"
  /\ LET c == [call[t] EXCEPT !.response = response, !.upstream = "returned",
                              !.sent = "returned"]
     IN  /\ call' = [call EXCEPT ![t] = AfterSend(c, response).call]
         /\ pc' = [pc EXCEPT ![t] = AfterSend(c, response).pc]
  /\ UNCHANGED <<msgFile, reqFile, requestStorage, additionalModel, lastId>>

\* mutant of LLMResponds: sendMessage validates the body and throws on a body that
\* validateLLMResponse would reject
LLMRespondsChecked(t, response) ==
  /\ pc[t] = "llm"
  /\ LET c == [call[t] EXCEPT !.response = response, !.upstream = "returned"]
         request == RequestBody(call[t].messages)
     IN  IF ~ValidLLMResponse(response)
           THEN /\ call' = [call EXCEPT ![t] =
                              [c EXCEPT !.sent = "threw", !.error = ErrTransport]]
                /\ pc' = [pc EXCEPT ![t] = "done"]
           ELSE IF requestStorage /\ ~StoreRequestThrows(response)
             THEN /\ call' = [call EXCEPT ![t] =
                                [c EXCEPT !.message = RequestEntry(request, response)]]
                  /\ pc' = [pc EXCEPT ![t] = "request_read"]
             ELSE /\ call' = [call EXCEPT ![t] =
                                AfterSend([c EXCEPT !.sent = "returned"], response).call]
                  /\ pc' = [pc EXCEPT ![t] = AfterSend(c, response).pc]
  /\ UNCHANGED <<msgFile, reqFile, requestStorage, additionalModel, lastId>>

\* axios.post returns response.data; storeRequest logs it when a request storage is
\* present, swallowing its own errors
LLMResponds(t, response) ==
  /\ pc[t] = "llm"
  /\ LET c == [call[t] EXCEPT !.response = response, !.upstream = "returned"]
         request == RequestBody(call[t].messages)
     IN  IF requestStorage /\ ~StoreRequestThrows(response)
           THEN /\ call' = [call EXCEPT ![t] =
                              [c EXCEPT !.message = RequestEntry(request, response)]]
                /\ pc' = [pc EXCEPT ![t] = "request_read"]
           ELSE /\ call' = [call EXCEPT ![t] =
                              AfterSend([c EXCEPT !.sent = "returned"], response).call]
                /\ pc' = [pc EXCEPT ![t] = AfterSend(c, response).pc]
  /\ UNCHANGED <<msgFile, reqFile, requestStorage, additionalModel, lastId>>

\* storeRequest -> requestStorage.addMessage: readMessages returns
RequestRead(t) ==
  /\ pc[t] = "request_read"
  /\ call' = [call EXCEPT ![t] = AfterRead(call[t], reqFile)]
  /\ pc' = [pc EXCEPT ![t] = "request_write"]
  /\ UNCHANGED <<msgFile, reqFile, requestStorage, additionalModel, lastId>>

\* storeRequest -> requestStorage.addMessage: the write is done; sendMessage returns
RequestWrite(t) ==
  /\ pc[t] = "request_write"
  /\ reqFile' = call[t].toWrite
  /\ LET c == [call[t] EXCEPT !.toWrite = <<>>, !.result = NoMessage,
                              !.sent = "returned",
                              !.events = Append(call[t].events, "request entry")]
     IN  /\ call' = [call EXCEPT ![t] = AfterSend(c, c.response).call]
         /\ pc' = [pc EXCEPT ![t] = AfterSend(c, c.response).pc]
  /\ UNCHANGED <<msgFile, requestStorage, additionalModel, lastId>>

\* the locals of call c after storeRequest has caught an error of the request storage
LogFailed(c) ==
  [c EXCEPT !.toWrite = <<>>, !.result = NoMessage, !.sent = "returned",
            !.logFailed = TRUE]

\* storeRequest -> requestStorage.addMessage: readFile throws; storeRequest catches
\* the error and sendMessage returns
RequestReadFails(t) ==
  /\ pc[t] = "request_read"
  /\ call' = [call EXCEPT ![t] = AfterSend(LogFailed(call[t]), call[t].response).call]
  /\ pc' = [pc EXCEPT ![t] = AfterSend(call[t], call[t].response).pc]
  /\ UNCHANGED <<msgFile, reqFile, requestStorage, additionalModel, lastId>>

\* mutant of RequestWriteFails: the error leaves storeRequest and sendMessage throws
RequestWriteFailsRaises(t) ==
  /\ pc[t] = "request_write"
  /\ call' = [call EXCEPT ![t] = [LogFailed(call[t]) EXCEPT !.error = ErrTransport,
                                                           !.sent = "threw"]]
  /\ pc' = [pc EXCEPT ![t] = "done"]
  /\ UNCHANGED <<msgFile, reqFile, requestStorage, additionalModel, lastId>>

\* storeRequest -> requestStorage.addMessage: writeFile throws and the file is as it
\* was; storeRequest catches the error and sendMessage returns
RequestWriteFails(t) ==
  /\ pc[t] = "request_write"
  /\ call' = [call EXCEPT ![t] = AfterSend(LogFailed(call[t]), call[t].response).call]
  /\ pc' = [pc EXCEPT ![t] = AfterSend(call[t], call[t].response).pc]
  /\ UNCHANGED <<msgFile, reqFile, requestStorage, additionalModel, lastId>>

\* storeAssistantMessage: readMessages returns, writeMessages is issued
AssistantRead(t) ==
  /\ pc[t] = "assistant_read"
  /\ call' = [call EXCEPT ![t] = AfterRead(call[t], msgFile)]
  /\ pc' = [pc EXCEPT ![t] = "assistant_write"]
  /\ UNCHANGED <<msgFile, reqFile, requestStorage, additionalModel, lastId>>

\* mutant of AssistantWrite: the fields passed in by the caller are returned
AssistantWriteEchoes(t) ==
  /\ pc[t] = "assistant_write"
  /\ msgFile' = call[t].toWrite
  /\ lastId' = call[t].result.id
  /\ call' = [call EXCEPT ![t].toWrite = <<>>,
                          ![t].result = [id |-> NoId, role |-> call[t].role,
                                         content |-> call[t].content,
                                         timestamp |-> Undefined],
                          ![t].events = Append(call[t].events, "assistant turn")]
  /\ pc' = [pc EXCEPT ![t] = "done"]
  /\ UNCHANGED <<reqFile, requestStorage, additionalModel>>

\* storeAssistantMessage: the write is done; processUserMessage returns
\* { content, role: 'assistant', timestamp: assistantMessage.timestamp }
AssistantWrite(t) ==
  /\ pc[t] = "assistant_write"
  /\ msgFile' = call[t].toWrite
  /\ lastId' = call[t].result.id
  /\ call' = [call EXCEPT ![t].toWrite = <<>>,
                          ![t].result = [id |-> NoId, role |-> "assistant",
                                         content |-> call[t].message.content,
                                         timestamp |-> call[t].result.timestamp],
                          ![t].events = Append(call[t].events, "assistant turn")]
  /\ pc' = [pc EXCEPT ![t] = "done"]
  /\ UNCHANGED <<reqFile, requestStorage, additionalModel>>

\* mutant of AfterClears: the welcome message is loaded whatever the clears did
AfterClearsAnyway(c) == IF c.pending = {} THEN "welcome_prompt" ELSE "clear_writes"

\* clearAllMessages: after Promise.all, loadPrompt('initial-message.html') is called;
\* a rejected clear makes Promise.all reject and clearAllMessages throw (a clear
\* still in flight at that moment settles before the call is taken as ended)
AfterClears(c) ==
  IF c.pending # {} THEN "clear_writes"
  ELSE IF c.error = NoError THEN "welcome_prompt" ELSE "done"

\* mutant of ResetStart: the request storage is not cleared
ResetStartMessagesOnly(t) ==
  /\ pc[t] = "idle"
  /\ call' = [call EXCEPT ![t] =
       [Idle EXCEPT !.op = "clearAllMessages", !.pre = msgFile, !.preReq = reqFile,
                    !.pending = {"messages"}]]
  /\ pc' = [pc EXCEPT ![t] = "clear_writes"]
  /\ UNCHANGED <<msgFile, reqFile, requestStorage, additionalModel, lastId>>

\* clearAllMessages() is called: clearMessages is called on the message storage and,
\* if present, on the request storage; both writes are in flight
ResetStart(t) ==
  /\ pc[t] = "idle"
  /\ call' = [call EXCEPT ![t] =
       [Idle EXCEPT !.op = "clearAllMessages", !.pre = msgFile, !.preReq = reqFile,
                    !.pending = IF requestStorage THEN {"messages", "requests"}
                                ELSE {"messages"}]]
  /\ pc' = [pc EXCEPT ![t] = "clear_writes"]
  /\ UNCHANGED <<msgFile, reqFile, requestStorage, additionalModel, lastId>>

\* messageStorage.clearMessages(): writeMessages([]) is done
ResetMessagesWrite(t) ==
  /\ pc[t] = "clear_writes"
  /\ "messages" \in call[t].pending
  /\ msgFile' = <<>>
  /\ lastId' = 0
  /\ LET c == [call[t] EXCEPT !.pending = call[t].pending \ {"messages"}]
     IN  /\ call' = [call EXCEPT ![t] = c]
         /\ pc' = [pc EXCEPT ![t] = AfterClears(c)]
  /\ UNCHANGED <<reqFile, requestStorage, additionalModel>>

\* requestStorage.clearMessages(): writeMessages([]) is done
ResetRequestsWrite(t) ==
  /\ pc[t] = "clear_writes"
  /\ "requests" \in call[t].pending
  /\ reqFile' = <<>>
  /\ LET c == [call[t] EXCEPT !.pending = call[t].pending \ {"requests"}]
     IN  /\ call' = [call EXCEPT ![t] = c]
         /\ pc' = [pc EXCEPT ![t] = AfterClears(c)]
  /\ UNCHANGED <<msgFile, requestStorage, additionalModel, lastId>>

\* messageStorage.clearMessages(): writeFile throws and the file is as it was
ResetMessagesWriteFails(t) ==
  /\ pc[t] = "clear_writes"
  /\ "messages" \in call[t].pending
  /\ LET c == [call[t] EXCEPT !.pending = call[t].pending \ {"messages"},
                              !.error = ErrWrite]
     IN  /\ call' = [call EXCEPT ![t] = c]
         /\ pc' = [pc EXCEPT ![t] = AfterClears(c)]
  /\ UNCHANGED <<msgFile, reqFile, requestStorage, additionalModel, lastId>>

\* requestStorage.clearMessages(): writeFile throws and the file is as it was
ResetRequestsWriteFails(t) ==
  /\ pc[t] = "clear_writes"
  /\ "requests" \in call[t].pending
  /\ LET c == [call[t] EXCEPT !.pending = call[t].pending \ {"requests"},
                              !.error = ErrWrite]
     IN  /\ call' = [call EXCEPT ![t] = c]
         /\ pc' = [pc EXCEPT ![t] = AfterClears(c)]
  /\ UNCHANGED <<msgFile, reqFile, requestStorage, additionalModel, lastId>>

\* mutant of LoadInitialMessage: a failure to load is thrown to the caller
LoadInitialMessageRaises(t, loaded) ==
  /\ pc[t] = "welcome_prompt"
  /\ IF loaded
       THEN /\ call' = [call EXCEPT ![t].message = TurnOf(InitialMessage, "assistant"),
                                    ![t].welcomeLoaded = TRUE]
            /\ pc' = [pc EXCEPT ![t] = "welcome_read"]
       ELSE /\ call' = [call EXCEPT ![t].error = "Failed to load prompt"]
            /\ pc' = [pc EXCEPT ![t] = "done"]
  /\ UNCHANGED <<msgFile, reqFile, requestStorage, additionalModel, lastId>>

\* loadPrompt('initial-message.html') returns: messageStorage.addMessage is called;
\* or it throws: the catch block calls getAllMessages
LoadInitialMessage(t, loaded) ==
  /\ pc[t] = "welcome_prompt"
  /\ IF loaded
       THEN /\ call' = [call EXCEPT ![t].message = TurnOf(InitialMessage, "assistant"),
                                    ![t].welcomeLoaded = TRUE]
            /\ pc' = [pc EXCEPT ![t] = "welcome_read"]
       ELSE /\ call' = call
            /\ pc' = [pc EXCEPT ![t] = "get_read"]
  /\ UNCHANGED <<msgFile, reqFile, requestStorage, additionalModel, lastId>>

\* addMessage of the welcome turn: readMessages returns, writeMessages is issued
WelcomeRead(t) ==
  /\ pc[t] = "welcome_read"
  /\ call' = [call EXCEPT ![t] = AfterRead(call[t], msgFile)]
  /\ pc' = [pc EXCEPT ![t] = "welcome_write"]
  /\ UNCHANGED <<msgFile, reqFile, requestStorage, additionalModel, lastId>>

\* addMessage of the welcome turn: the write is done; getAllMessages() is called
WelcomeWrite(t) ==
  /\ pc[t] = "welcome_write"
  /\ msgFile' = call[t].toWrite
  /\ lastId' = call[t].result.id
  /\ call' = [call EXCEPT ![t].toWrite = <<>>, ![t].result = NoMessage]
  /\ pc' = [pc EXCEPT ![t] = "get_read"]
  /\ UNCHANGED <<reqFile, requestStorage, additionalModel>>

\* ChatService.addMessage(messageData) is called: validateMessageContent,
\* formatMessage, then messageStorage.addMessage
AddStart(t, messageData) ==
  /\ pc[t] = "idle"
  /\ Len(msgFile) < MaxLen
  /\ LET c == [Idle EXCEPT !.op = "addMessage", !.content = messageData.content,
                           !.role = messageData.role,
                           !.timestamp = messageData.timestamp,
                           !.pre = msgFile, !.preReq = reqFile]
     IN  IF ValidContent(messageData.content)
           THEN /\ call' = [call EXCEPT ![t] =
                              [c EXCEPT !.message = FormatMessage(messageData)]]
                /\ pc' = [pc EXCEPT ![t] = "append_read"]
           ELSE /\ call' = [call EXCEPT ![t] = [c EXCEPT !.error = ErrRequired]]
                /\ pc' = [pc EXCEPT ![t] = "done"]
  /\ UNCHANGED <<msgFile, reqFile, requestStorage, additionalModel, lastId>>

\* mutant of GetAllStart: messageStorage.getMessages(limit, true)
GetAllStartNewestFirst(t, limit) ==
  /\ pc[t] = "idle"
  /\ call' = [call EXCEPT ![t] =
       [Idle EXCEPT !.op = "getAllMessages", !.quantity = limit, !.reverse = TRUE,
                    !.pre = msgFile, !.preReq = reqFile]]
  /\ pc' = [pc EXCEPT ![t] = "get_read"]
  /\ UNCHANGED <<msgFile, reqFile, requestStorage, additionalModel, lastId>>

\* getAllMessages(limit) is called: messageStorage.getMessages(limit, false)
GetAllStart(t, limit) ==
  /\ pc[t] = "idle"
  /\ call' = [call EXCEPT ![t] =
       [Idle EXCEPT !.op = "getAllMessages", !.quantity = limit, !.reverse = FALSE,
                    !.pre = msgFile, !.preReq = reqFile]]
  /\ pc' = [pc EXCEPT ![t] = "get_read"]
  /\ UNCHANGED <<msgFile, reqFile, requestStorage, additionalModel, lastId>>

\* the arguments of the model's calls
UserContents == {"", "a", "b"}

UserRoles == {"user", "assistant"}

MessageData ==
  [content : {"", "a"}, role : {Undefined, "assistant"}, timestamp : {Undefined, Given}]

Limits == {Null, <<1>>, <<2>>}

\* state after construction: both files hold [], with or without a request storage
Init ==
  /\ msgFile = <<>>
  /\ reqFile = <<>>
  /\ requestStorage \in BOOLEAN
  /\ additionalModel = Undefined
  /\ pc = [t \in Tasks |-> "idle"]
  /\ call = [t \in Tasks |-> Idle]
  /\ lastId = 0

\* both files are below the bounds of the model
Room == Len(msgFile) < MaxLen /\ Len(reqFile) < MaxReq

\* calls of the ChatService, one call at a time
SeqNext ==
  \E t \in Tasks :
    \/ \E userContent \in UserContents, userRole \in UserRoles :
          Alone(t) /\ Room /\ ProcessStart(t, userContent, userRole)
    \/ UserRead(t)
    \/ UserReadFails(t)
    \/ UserWrite(t)
    \/ UserWriteFails(t)
    \/ \E loaded \in BOOLEAN : LoadSystemPrompt(t, loaded)
    \/ HistoryRead(t)
    \/ LLMFails(t)
    \/ \E response \in Completions : LLMResponds(t, response)
    \/ RequestRead(t)
    \/ RequestReadFails(t)
    \/ RequestWrite(t)
    \/ RequestWriteFails(t)
    \/ AssistantRead(t)
    \/ AssistantWrite(t)
    \/ Alone(t) /\ ResetStart(t)
    \/ ResetMessagesWrite(t)
    \/ ResetRequestsWrite(t)
    \/ \E loaded \in BOOLEAN : LoadInitialMessage(t, loaded)
    \/ WelcomeRead(t)
    \/ WelcomeWrite(t)
    \/ \E messageData \in MessageData : Alone(t) /\ AddStart(t, messageData)
    \/ AppendRead(t)
    \/ AppendWrite(t)
    \/ \E limit \in Limits : Alone(t) /\ GetAllStart(t, limit)
    \/ GetRead(t)
    \/ Return(t)

SeqSpec == Init /\ [][SeqNext]_vars

(***************************************************************************)
(* Direct calls of the LLMService: sendMessage and                         *)
(* sendMessageWithAdditionalModel, on a service without request storage    *)
(***************************************************************************)
\* config.model
PrimaryModel == "model"

\* a configured config.additionalModel
AdditionalModel == "additional-model"

\* the error sendMessage throws
ErrSend == "Failed to get LLM response"

\* options = {}
NoOptions == [model |-> Undefined]

\* the options of the model's calls: none, or a model that is '' or a name
Options == {NoOptions, [model |-> ""], [model |-> "other-model"]}

\* the messages of the model's calls
Contexts ==
  {<<[role |-> "user", content |-> "a"]>>,
   <<[role |-> "system", content |-> SystemPrompt], [role |-> "user", content |-> "b"]>>}

\* sendMessage: { messages, model: options.model || this.model, ...options }
RequestBodyWith(messages, options) ==
  LET model == IF Falsy(options.model) THEN PrimaryModel ELSE options.model
  IN  [messages |-> messages,
       model |-> IF options.model # Undefined THEN options.model ELSE model]

\* mutant of AdditionalOptions: { model: this.additionalModel, ...options }
AdditionalOptionsUnderOptions(options, additional) ==
  IF options.model # Undefined THEN options ELSE [options EXCEPT !.model = additional]

\* sendMessageWithAdditionalModel: { ...options, model: this.additionalModel }
AdditionalOptions(options, additional) == [options EXCEPT !.model = additional]

\* sendMessage(messages, options) is called: axios.post is issued
SendStart(t, messages, options) ==
  /\ pc[t] = "idle"
  /\ call' = [call EXCEPT ![t] =
       [Idle EXCEPT !.op = "sendMessage", !.messages = messages, !.options = options,
                    !.body = RequestBodyWith(messages, options), !.llmCalls = 1]]
  /\ pc' = [pc EXCEPT ![t] = "post"]
  /\ UNCHANGED <<msgFile, reqFile, requestStorage, additionalModel, lastId>>

\* sendMessageWithAdditionalModel(messages, options) is called: sendMessage is called
\* with the options as given when no additional model is configured, and with the
\* additional model otherwise
SendAdditionalStart(t, messages, options) ==
  /\ pc[t] = "idle"
  /\ LET sent == IF Falsy(additionalModel) THEN options
                 ELSE AdditionalOptions(options, additionalModel)
     IN  call' = [call EXCEPT ![t] =
           [Idle EXCEPT !.op = "sendMessageWithAdditionalModel", !.messages = messages,
                        !.options = options, !.body = RequestBodyWith(messages, sent),
                        !.llmCalls = 1]]
  /\ pc' = [pc EXCEPT ![t] = "post"]
  /\ UNCHANGED <<msgFile, reqFile, requestStorage, additionalModel, lastId>>

\* axios.post throws: sendMessage throws
PostFails(t) ==
  /\ pc[t] = "post"
  /\ call' = [call EXCEPT ![t].error = ErrSend, ![t].upstream = "failed",
                          ![t].sent = "threw"]
  /\ pc' = [pc EXCEPT ![t] = "done"]
  /\ UNCHANGED <<msgFile, reqFile, requestStorage, additionalModel, lastId>>

\* axios.post returns; without request storage storeRequest does nothing and
\* sendMessage returns response.data
PostReturns(t, response) ==
  /\ pc[t] = "post"
  /\ ~requestStorage
  /\ call' = [call EXCEPT ![t].response = response, ![t].upstream = "returned",
                          ![t].sent = "returned"]
  /\ pc' = [pc EXCEPT ![t] = "done"]
  /\ UNCHANGED <<msgFile, reqFile, requestStorage, additionalModel, lastId>>

\* an LLMService with or without an additional model, and no request storage
ModelInit ==
  /\ msgFile = <<>>
  /\ reqFile = <<>>
  /\ requestStorage = FALSE
  /\ additionalModel \in {Undefined, AdditionalModel}
  /\ pc = [t \in Tasks |-> "idle"]
  /\ call = [t \in Tasks |-> Idle]
  /\ lastId = 0

\* calls of the LLMService, one call at a time
ModelNext ==
  \E t \in Tasks :
    \/ \E messages \in Contexts, options \in Options :
          Alone(t) /\ SendStart(t, messages, options)
    \/ \E messages \in Contexts, options \in Options :
          Alone(t) /\ SendAdditionalStart(t, messages, options)
    \/ PostFails(t)
    \/ \E response \in Completions : PostReturns(t, response)
    \/ Return(t)

ModelSpec == ModelInit /\ [][ModelNext]_vars

\* 'last 10 messages' of the doc comment of prepareConversationHistory
HistoryWindow == 10

\* the Message Store after a reset that stored the welcome turn and n further turns
\* of completed exchanges: user 'a', assistant reply, alternating
RECURSIVE StoredTurns(_)
StoredTurns(n) ==
  IF n = 0
    THEN Pushed(<<>>, TurnOf(InitialMessage, "assistant"))
    ELSE Pushed(StoredTurns(n - 1),
                IF n % 2 = 1 THEN TurnOf("a", "user") ELSE TurnOf(Reply, "assistant"))

\* a service without request storage whose Message Store holds the welcome turn and
\* five completed exchanges: one turn more than the window
LongInit ==
  /\ msgFile = StoredTurns(HistoryWindow)
  /\ reqFile = <<>>
  /\ requestStorage = FALSE
  /\ additionalModel = Undefined
  /\ pc = [t \in Tasks |-> "idle"]
  /\ call = [t \in Tasks |-> Idle]
  /\ lastId = HistoryWindow + 1

\* processUserMessage calls on the long conversation, one call at a time
LongNext ==
  \E t \in Tasks :
    \/ \E userContent \in UserContents, userRole \in UserRoles :
          /\ Alone(t)
          /\ Len(msgFile) <= HistoryWindow + MaxLen
          /\ ProcessStart(t, userContent, userRole)
    \/ UserRead(t)
    \/ UserWrite(t)
    \/ \E loaded \in BOOLEAN : LoadSystemPrompt(t, loaded)
    \/ HistoryRead(t)
    \/ LLMFails(t)
    \/ \E response \in Completions : LLMResponds(t, response)
    \/ AssistantRead(t)
    \/ AssistantWrite(t)
    \/ Return(t)

LongSpec == LongInit /\ [][LongNext]_vars

(***************************************************************************)
(* Properties                                                              *)
(***************************************************************************)
IsPrefix(s, r) == Len(s) <= Len(r) /\ SubSeq(r, 1, Len(s)) = s

Finished(t, op) == pc[t] = "done" /\ call[t].op = op

\* C1: with calls of the store one at a time, an append on the empty store returns
\* id 1 and every later append returns the previously returned id + 1 (lastId is
\* the id the latest append returned, 0 after a clear and initially)
C1_IdsIncreaseByOne ==
  [][\A t \in Tasks : AppendWrite(t) => call[t].result.id = lastId + 1]_vars

\* the completion has a first choice that carries a message
HasReply(response) == ValidLLMResponse(response) /\ response.choices[1].hasMessage

\* C2: a processUserMessage with non-empty content whose upstream call returned a
\* completion with a reply leaves the Message Store as it was at the call plus
\* exactly two turns: the caller's role and content, then an 'assistant' turn
C2_TwoTurnsOnSuccess ==
  \A t \in Tasks :
    (/\ Finished(t, "processUserMessage")
     /\ call[t].content # ""
     /\ call[t].upstream = "returned"
     /\ HasReply(call[t].response))
    => LET n == Len(call[t].pre)
       IN  /\ call[t].error = NoError
           /\ Len(msgFile) = n + 2
           /\ IsPrefix(call[t].pre, msgFile)
           /\ msgFile[n + 1].role = call[t].role
           /\ msgFile[n + 1].content = call[t].content
           /\ msgFile[n + 2].role = "assistant"
           /\ msgFile[n + 2].content = call[t].response.choices[1].content

\* C2 witness: such a call has finished on a store that already held turns
C2_Witness ==
  \E t \in Tasks :
    /\ Finished(t, "processUserMessage")
    /\ call[t].response = ValidCompletion
    /\ call[t].upstream = "returned"
    /\ call[t].pre # <<>>

\* C3: when the upstream call of a processUserMessage fails, the call fails with the
\* 'LLM API call failed' error and the Message Store is as it was at the call plus
\* exactly the user's turn
C3_UserTurnKeptOnFailure ==
  \A t \in Tasks :
    (call[t].op = "processUserMessage" /\ call[t].upstream = "failed")
    => LET n == Len(call[t].pre)
       IN  /\ pc[t] = "done"
           /\ call[t].error = ErrTransport
           /\ Len(msgFile) = n + 1
           /\ IsPrefix(call[t].pre, msgFile)
           /\ msgFile[n + 1].role = call[t].role
           /\ msgFile[n + 1].content = call[t].content

\* C3 witness: a call whose upstream call failed, on a store that already held turns
C3_Witness ==
  \E t \in Tasks :
    /\ Finished(t, "processUserMessage")
    /\ call[t].upstream = "failed"
    /\ call[t].pre # <<>>

\* C4: a processUserMessage with empty content fails with the validation error,
\* issues no upstream request and leaves both stores as they were
C4_EmptyContentRejected ==
  \A t \in Tasks :
    (call[t].op = "processUserMessage" /\ call[t].content = "")
    => /\ pc[t] = "done"
       /\ call[t].error = ErrRequired
       /\ call[t].llmCalls = 0
       /\ call[t].upstream = "none"
       /\ msgFile = call[t].pre
       /\ reqFile = call[t].preReq

\* C4 witness: the call was made with both stores non-empty
C4_Witness ==
  \E t \in Tasks :
    /\ Finished(t, "processUserMessage")
    /\ call[t].content = ""
    /\ call[t].pre # <<>>
    /\ call[t].preReq # <<>>

\* C5: with overlapping appends (and no clear), the records of the store have
\* pairwise distinct ids and no two appends return the same id
C5_DistinctIds ==
  /\ \A i, j \in 1..Len(msgFile) : i # j => msgFile[i].id # msgFile[j].id
  /\ \A t, u \in Tasks :
       (t # u /\ Finished(t, "append") /\ Finished(u, "append"))
       => call[t].result.id # call[u].result.id

\* no append is between its call and its return
NoAppendInFlight == \A t \in Tasks : pc[t] \notin {"append_read", "append_write"}

\* C6: with overlapping appends (and no clear), once all appends have completed the
\* store holds every record they returned
C6_NoLostUpdate ==
  NoAppendInFlight
  => \A t \in Tasks : Finished(t, "append") => call[t].result \in Range(msgFile)

\* the welcome turn is the only turn of the Message Store
OnlyWelcome ==
  /\ Len(msgFile) = 1
  /\ msgFile[1].role = "assistant"
  /\ msgFile[1].content = InitialMessage

\* C7 as stated: after clearAllMessages completes, the Message Store holds exactly
\* the welcome turn and the Request Store is empty
C7_ResetLeavesWelcome ==
  \A t \in Tasks : Finished(t, "clearAllMessages") => OnlyWelcome /\ reqFile = <<>>

\* C7 amended: after a clearAllMessages that loaded the welcome content completes,
\* the Message Store holds exactly the welcome turn and the Request Store is empty
C7_ResetLeavesWelcomeIfLoaded ==
  \A t \in Tasks :
    (Finished(t, "clearAllMessages") /\ call[t].welcomeLoaded)
    => /\ OnlyWelcome
       /\ reqFile = <<>>
       /\ call[t].list = msgFile
       /\ call[t].error = NoError

\* C7 witness: such a reset has completed over non-empty stores
C7_Witness ==
  \E t \in Tasks :
    /\ Finished(t, "clearAllMessages")
    /\ call[t].welcomeLoaded
    /\ Len(call[t].pre) > 1
    /\ call[t].preReq # <<>>

\* C8: a clearAllMessages whose welcome content fails to load completes without an
\* error, with both stores empty, no welcome turn, and returns the empty list
C8_ResetSurvivesWelcomeFailure ==
  \A t \in Tasks :
    (/\ call[t].op = "clearAllMessages"
     /\ pc[t] \in {"get_read", "done"}
     /\ ~call[t].welcomeLoaded)
    => /\ call[t].error = NoError
       /\ msgFile = <<>>
       /\ reqFile = <<>>
       /\ pc[t] = "done" => call[t].list = <<>>

\* C8 witness: such a reset has completed over non-empty stores
C8_Witness ==
  \E t \in Tasks :
    /\ Finished(t, "clearAllMessages")
    /\ ~call[t].welcomeLoaded
    /\ call[t].pre # <<>>
    /\ call[t].preReq # <<>>

\* C9: the messages sent upstream are the system prompt (if loaded), the turns stored
\* before the call reduced to role and content, and the new turn once, as last element
C9_ContextEndsWithNewTurnOnce ==
  \A t \in Tasks :
    pc[t] = "llm"
    => call[t].messages =
         (IF call[t].sysLoaded THEN <<[role |-> "system", content |-> SystemPrompt]>>
                               ELSE <<>>)
         \o RoleContent(call[t].pre)
         \o <<[role |-> call[t].role, content |-> call[t].content]>>

\* C10: a loaded system prompt is the first element of the messages sent upstream and
\* occurs nowhere else in them, and no turn of the Message Store holds its text
C10_SystemPromptFirstNeverStored ==
  /\ \A t \in Tasks :
       (pc[t] = "llm" /\ call[t].sysLoaded)
       => /\ call[t].messages[1] = [role |-> "system", content |-> SystemPrompt]
          /\ \A i \in 2..Len(call[t].messages) : call[t].messages[i].content # SystemPrompt
  /\ \A i \in 1..Len(msgFile) : msgFile[i].content # SystemPrompt

\* C10 witness: a request with the system prompt and earlier turns is in flight
C10_Witness ==
  \E t \in Tasks : pc[t] = "llm" /\ call[t].sysLoaded /\ Len(call[t].messages) > 2

\* the errors processUserMessage can throw once the request has been posted
LLMStageErrors == {NoError, ErrTransport, ErrInvalid, ErrType}

\* C11: a processUserMessage whose system prompt failed to load still posts a request
\* upstream; its messages hold no element of role 'system' and are the stored turns
\* followed by the new turn; when a reply comes back the assistant turn is stored
\* and returned
C11_PromptFailureFallsBack ==
  \A t \in Tasks :
    (call[t].op = "processUserMessage" /\ ~call[t].sysLoaded)
    => /\ pc[t] = "llm"
          => /\ \A i \in 1..Len(call[t].messages) : call[t].messages[i].role # "system"
             /\ call[t].messages =
                  RoleContent(msgFile)
                  \o <<[role |-> call[t].role, content |-> call[t].content]>>
       /\ (pc[t] = "done" /\ call[t].events # <<>>)
          => /\ call[t].llmCalls = 1
             /\ call[t].error \in LLMStageErrors
       /\ (pc[t] = "done" /\ call[t].upstream = "returned" /\ HasReply(call[t].response))
          => /\ call[t].error = NoError
             /\ call[t].result.role = "assistant"
             /\ call[t].result.content = call[t].response.choices[1].content
             /\ msgFile[Len(msgFile)].role = "assistant"
             /\ msgFile[Len(msgFile)].content = call[t].response.choices[1].content

\* C11 witness: such a call has returned a reply on a store that already held turns
C11_Witness ==
  \E t \in Tasks :
    /\ Finished(t, "processUserMessage")
    /\ ~call[t].sysLoaded
    /\ call[t].llmCalls = 1
    /\ call[t].response = ValidCompletion
    /\ call[t].upstream = "returned"
    /\ call[t].pre # <<>>

\* C12: the messages sent upstream hold at most the 10 most recent stored turns
\* besides the system prompt and the new message, whatever the Message Store
\* holds: at most HistoryWindow elements besides the system prompt and the new turn
\* (in the fallback branch, besides the new turn and its stored copy)
C12_ContextWindow ==
  \A t \in Tasks :
    pc[t] = "llm" => Len(call[t].messages) <= HistoryWindow + 2

\* C13: once the upstream call of a processUserMessage has returned a completion with
\* zero choices, no assistant turn is stored and the Message Store is as it was at
\* the call plus exactly the user's turn (from an empty store: only the user's turn),
\* and the call fails with the 'Invalid response from LLM service' error
C13_ZeroChoicesRejected ==
  \A t \in Tasks :
    (/\ call[t].op = "processUserMessage"
     /\ call[t].upstream = "returned"
     /\ call[t].response = ZeroChoices)
    => LET n == Len(call[t].pre)
       IN  /\ pc[t] \in {"request_read", "request_write", "done"}
           /\ pc[t] = "done" => call[t].error = ErrInvalid
           /\ Len(msgFile) = n + 1
           /\ IsPrefix(call[t].pre, msgFile)
           /\ msgFile[n + 1].role = call[t].role
           /\ msgFile[n + 1].content = call[t].content

\* C13 witness: such a call has failed, having started on an empty Message Store
C13_Witness ==
  \E t \in Tasks :
    /\ Finished(t, "processUserMessage")
    /\ call[t].upstream = "returned"
    /\ call[t].response = ZeroChoices
    /\ call[t].pre = <<>>
    /\ Len(msgFile) = 1

\* the list a read returned is the last n records of the store at the call, oldest
\* first, or newest first when reversed is set
IsLast(list, n, store, reversed) ==
  /\ Len(list) = n
  /\ \A i \in 1..n :
       list[i] = IF reversed THEN store[Len(store) + 1 - i] ELSE store[Len(store) - n + i]

\* C14: getMessages(null, false) returns all records in the order they were appended,
\* getMessages(null, true) returns them in the exact reverse order, and the store
\* is left as it was
C14_ReadAllBothOrders ==
  \A t \in Tasks :
    (Finished(t, "get") /\ call[t].quantity = Null)
    => /\ msgFile = call[t].pre
       /\ IsLast(call[t].list, Len(call[t].pre), call[t].pre, call[t].reverse)

\* C14 witness: a read of all records, newest first, has returned two records
C14_Witness ==
  \E t \in Tasks :
    /\ Finished(t, "get")
    /\ call[t].quantity = Null
    /\ call[t].reverse
    /\ Len(call[t].list) = 2

\* C15: for 0 < N <= size, getMessages(N, false) returns exactly the last N records
\* oldest first and getMessages(N, true) returns those N records newest first
C15_ReadLastN ==
  \A t \in Tasks :
    (/\ Finished(t, "get")
     /\ call[t].quantity # Null
     /\ call[t].quantity[1] > 0
     /\ call[t].quantity[1] <= Len(call[t].pre))
    => /\ msgFile = call[t].pre
       /\ IsLast(call[t].list, call[t].quantity[1], call[t].pre, call[t].reverse)

\* C15 witness: getMessages(1, true) on two records has returned only the second one
C15_Witness ==
  \E t \in Tasks :
    /\ Finished(t, "get")
    /\ call[t].quantity = <<1>>
    /\ call[t].reverse
    /\ Len(call[t].pre) = 2
    /\ call[t].list = <<call[t].pre[2]>>
    /\ call[t].list[1].id = 2

\* C16: getMessages(N, reverse) with N greater than the size of the store, N = 0 or
\* N = null returns the whole store, newest first when reverse is set
C16_ReadBeyondSize ==
  \A t \in Tasks :
    (/\ Finished(t, "get")
     /\ \/ call[t].quantity = Null
        \/ call[t].quantity[1] = 0
        \/ call[t].quantity[1] > Len(call[t].pre))
    => IsLast(call[t].list, Len(call[t].pre), call[t].pre, call[t].reverse)

\* C16 witness: reads with N = 0 and with N beyond the size have returned records
C16_Witness ==
  \E t \in Tasks :
    /\ Finished(t, "get")
    /\ call[t].quantity \in {<<0>>, <<4>>}
    /\ call[t].reverse
    /\ Len(call[t].pre) = 2

\* C17: a processUserMessage during which the request storage failed while the
\* request was logged has its sendMessage return the completion, never fails with
\* the upstream error, leaves the Request Store as it was, and with a reply stores
\* and returns the assistant turn
C17_LogFailureSwallowed ==
  \A t \in Tasks :
    (call[t].op = "processUserMessage" /\ call[t].logFailed)
    => /\ call[t].sent = "returned"
       /\ call[t].error # ErrTransport
       /\ reqFile = call[t].preReq
       /\ (pc[t] = "done" /\ HasReply(call[t].response))
          => /\ call[t].error = NoError
             /\ call[t].result.role = "assistant"
             /\ call[t].result.content = call[t].response.choices[1].content
             /\ Len(msgFile) = Len(call[t].pre) + 2
             /\ msgFile[Len(msgFile)].role = "assistant"
             /\ msgFile[Len(msgFile)].content = call[t].response.choices[1].content

\* C17 witness: a call whose request could not be logged has returned its reply
C17_Witness ==
  \E t \in Tasks :
    /\ Finished(t, "processUserMessage")
    /\ call[t].logFailed
    /\ call[t].response = ValidCompletion
    /\ call[t].error = NoError

\* C18: with a request storage whose file operations succeed, a processUserMessage
\* whose upstream call returned has appended exactly one entry to the Request Store,
\* holding the request and the response of that call, and a call whose upstream
\* call failed or was never made has appended none
C18_OneEntryPerReturnedCall ==
  \A t \in Tasks :
    (/\ Finished(t, "processUserMessage")
     /\ requestStorage
     /\ ~call[t].logFailed)
    => IF call[t].upstream = "returned"
         THEN LET n == Len(call[t].preReq)
              IN  /\ Len(reqFile) = n + 1
                  /\ IsPrefix(call[t].preReq, reqFile)
                  /\ reqFile[n + 1].content =
                       [request |-> RequestBody(call[t].messages),
                        response |-> call[t].response]
         ELSE reqFile = call[t].preReq

\* a processUserMessage call has returned its reply, with the request logged
Logged(t) ==
  /\ Finished(t, "processUserMessage")
  /\ call[t].error = NoError
  /\ requestStorage
  /\ ~call[t].logFailed

\* C19 as stated: within a successful processUserMessage the user turn is appended,
\* the request is posted, the assistant turn is appended, and then the Request Log
\* Entry is appended
C19_AssistantTurnBeforeEntry ==
  \A t \in Tasks :
    Logged(t)
    => call[t].events = <<"user turn", "request posted", "assistant turn", "request entry">>

\* C19 amended: within a successful processUserMessage the user turn is appended, the
\* request is posted, the Request Log Entry is appended, and then the assistant turn
\* is appended; the stores hold what was appended
C19_EntryBeforeAssistantTurn ==
  \A t \in Tasks :
    Logged(t)
    => /\ call[t].events = <<"user turn", "request posted", "request entry", "assistant turn">>
       /\ Len(msgFile) = Len(call[t].pre) + 2
       /\ Len(reqFile) = Len(call[t].preReq) + 1

\* C19 witness: such a call has returned on stores that already held records
C19_Witness ==
  \E t \in Tasks : Logged(t) /\ call[t].pre # <<>> /\ call[t].preReq # <<>>

\* C20 as stated: when the upstream call returns a body with zero choices or a
\* malformed body, sendMessage throws
C20_SendMessageRejectsBody ==
  \A t \in Tasks :
    (/\ Finished(t, "processUserMessage")
     /\ call[t].upstream = "returned"
     /\ ~HasReply(call[t].response))
    => call[t].sent = "threw"

\* C20 amended: when the upstream call returns a body with zero choices or a malformed
\* body, sendMessage returns it, and processUserMessage fails: with the invalid
\* response error for a null body, missing choices or zero choices, with a TypeError
\* for a first choice without a message; no assistant turn is stored
C20_CallerRejectsBody ==
  \A t \in Tasks :
    (/\ Finished(t, "processUserMessage")
     /\ call[t].upstream = "returned"
     /\ ~HasReply(call[t].response))
    => /\ call[t].sent = "returned"
       /\ call[t].error =
            IF call[t].response \in {NullBody, MissingChoices, ZeroChoices}
              THEN ErrInvalid ELSE ErrType
       /\ Len(msgFile) = Len(call[t].pre) + 1

\* C20 witness: a call whose upstream call returned a body without choices has failed
C20_Witness ==
  \E t \in Tasks :
    /\ Finished(t, "processUserMessage")
    /\ call[t].upstream = "returned"
    /\ call[t].response = MissingChoices
    /\ call[t].sent = "returned"
    /\ call[t].error = ErrInvalid

\* C21: a processUserMessage posts at most one request upstream, and exactly one when
\* its upstream call has failed or has returned
C21_NoRetry ==
  \A t \in Tasks :
    /\ call[t].llmCalls <= 1
    /\ (call[t].op = "processUserMessage" /\ call[t].upstream # "none")
       => call[t].llmCalls = 1
    /\ call[t].op # "processUserMessage" => call[t].llmCalls = 0

\* C21 witness: a call whose only request failed has thrown
C21_Witness ==
  \E t \in Tasks :
    /\ Finished(t, "processUserMessage")
    /\ call[t].upstream = "failed"
    /\ call[t].llmCalls = 1
    /\ call[t].error = ErrTransport

\* the append of task t was given fields without an id and has returned its record
Assigned(t) == Finished(t, "append") /\ call[t].message.id = NoId

\* C22 as stated: over the history of a store, clears included, no id is assigned by
\* append to two different records
C22_IdsNeverReused ==
  \A t, u \in Tasks :
    (t # u /\ Assigned(t) /\ Assigned(u)) => call[t].result.id # call[u].result.id

\* C22 amended: the id an append assigns is greater than the id of every record the
\* store holds at that moment, and is 1 on an empty store, a cleared one included
C22_IdsFreshInStore ==
  [][\A t \in Tasks :
       (AppendWrite(t) /\ call[t].message.id = NoId)
       => /\ \A i \in 1..Len(msgFile) : msgFile[i].id < call[t].result.id
          /\ msgFile = <<>> => call[t].result.id = 1]_vars

\* C22 witness: after a clear an append has assigned id 1, which an earlier append
\* had assigned to the record its caller still holds
C22_Witness ==
  \E t, u \in Tasks :
    /\ t # u
    /\ Assigned(t)
    /\ Assigned(u)
    /\ call[t].result.id = 1
    /\ call[u].result.id = 1
    /\ call[t].result.content # call[u].result.content
    /\ Len(msgFile) = 1

\* C23: a ChatService.addMessage with empty content fails with the validation error
\* and leaves both stores as they were; with non-empty content it appends exactly
\* one turn with that content, the role given or 'user', the timestamp given or
\* now, returns it, posts no request upstream and leaves the Request Store as it was
C23_AddRawTurn ==
  \A t \in Tasks :
    Finished(t, "addMessage")
    => /\ call[t].llmCalls = 0
       /\ call[t].upstream = "none"
       /\ reqFile = call[t].preReq
       /\ IF call[t].content = ""
            THEN call[t].error = ErrRequired /\ msgFile = call[t].pre
            ELSE LET n == Len(call[t].pre)
                 IN  /\ call[t].error = NoError
                     /\ Len(msgFile) = n + 1
                     /\ IsPrefix(call[t].pre, msgFile)
                     /\ msgFile[n + 1] = call[t].result
                     /\ msgFile[n + 1].content = call[t].content
                     /\ msgFile[n + 1].role =
                          IF call[t].role = Undefined THEN "user" ELSE call[t].role
                     /\ msgFile[n + 1].timestamp =
                          IF call[t].timestamp = Undefined THEN Now ELSE call[t].timestamp

\* C23 witness: a turn without role and timestamp has been added to non-empty stores
C23_Witness ==
  \E t \in Tasks :
    /\ Finished(t, "addMessage")
    /\ call[t].content = "a"
    /\ call[t].role = Undefined
    /\ call[t].timestamp = Undefined
    /\ call[t].pre # <<>>
    /\ call[t].preReq # <<>>

\* C24: getAllMessages(limit) returns the whole Message Store when no limit is given
\* and the limit most recent turns otherwise, always oldest first, and changes
\* neither store
C24_GetAllChronological ==
  \A t \in Tasks :
    Finished(t, "getAllMessages")
    => LET n == Len(call[t].pre)
           k == IF call[t].quantity = Null THEN n ELSE Min2(call[t].quantity[1], n)
       IN  /\ msgFile = call[t].pre
           /\ reqFile = call[t].preReq
           /\ call[t].error = NoError
           /\ Len(call[t].list) = k
           /\ \A i \in 1..k : call[t].list[i] = call[t].pre[n - k + i]

\* C24 witness: getAllMessages(2) has returned two turns
C24_Witness ==
  \E t \in Tasks :
    /\ Finished(t, "getAllMessages")
    /\ call[t].quantity = <<2>>
    /\ Len(call[t].list) = 2
    /\ call[t].list[1].id < call[t].list[2].id

\* C25: an append or a read of a store whose file cannot be read or cannot be parsed
\* fails with an error and leaves the file as it was
C25_UnreadableIsFatal ==
  \A t \in Tasks :
    (/\ pc[t] = "done"
     /\ call[t].op \in {"append", "get"}
     /\ (call[t].error = ErrRead \/ ~Parsable(call[t].pre)))
    => call[t].error # NoError /\ msgFile = call[t].pre

\* C26: every turn of the Message Store has non-empty content
C26_StoredContentNonEmpty ==
  \A i \in 1..Len(msgFile) : msgFile[i].content \notin {"", Undefined}

\* C27: whenever getMessages or the read phase of addMessage reads the file while
\* writes overlap, the file holds a complete record set: the one before or the
\* one after each write, never the text of a write under way
C27_ReadsSeeCompleteSets ==
  [][\A t \in Tasks : (GetRead(t) \/ AppendRead(t)) => Parsable(msgFile)]_vars

\* C28: the record an append stores and returns has the id MaxId + 1 of the store at
\* the call (1 on an empty store), whatever fields the caller passes
C28_IdIsMaxPlusOne ==
  \A t \in Tasks :
    Finished(t, "append")
    => /\ call[t].result.id = MaxId(call[t].pre) + 1
       /\ msgFile[Len(msgFile)] = call[t].result

C30_InvalidShapeRejected ==
  \A t \in Tasks :
    (/\ Finished(t, "processUserMessage")
     /\ call[t].upstream = "returned"
     /\ call[t].response \in {NullBody, MissingChoices, NoMessageChoice})
    => LET n == Len(call[t].pre)
       IN  /\ call[t].error = ErrInvalid
           /\ Len(msgFile) = n + 1
           /\ IsPrefix(call[t].pre, msgFile)
           /\ msgFile[n + 1].role = call[t].role
           /\ msgFile[n + 1].content = call[t].content

\* C31: a processUserMessage that succeeds returns role 'assistant', the content of
\* the completion's first choice, which is the content of the turn it has appended
\* last to the Message Store, and the timestamp of that turn
C31_ReturnsStoredTurn ==
  \A t \in Tasks :
    (Finished(t, "processUserMessage") /\ call[t].error = NoError)
    => LET stored == msgFile[Len(call[t].pre) + 2]
       IN  /\ Len(msgFile) = Len(call[t].pre) + 2
           /\ stored.role = "assistant"
           /\ call[t].result.role = "assistant"
           /\ call[t].result.content = call[t].response.choices[1].content
           /\ call[t].result.content = stored.content
           /\ call[t].result.timestamp = stored.timestamp

\* C31 witness: a call with user content 'a' has returned the reply
C31_Witness ==
  \E t \in Tasks :
    /\ Finished(t, "processUserMessage")
    /\ call[t].error = NoError
    /\ call[t].content = "a"
    /\ call[t].result.content = Reply

\* C32: the LLM is called only once the user turn is in the Message Store: a
\* processUserMessage whose append of the user turn fails ends with that error,
\* without an LLM call, an assistant turn or a request entry; and whenever its LLM
\* call is in flight the store holds the call's user turn right after the records
\* that were there when the call began
C32_UserTurnBeforeLLM ==
  \A t \in Tasks :
    /\ (Finished(t, "processUserMessage") /\ call[t].error \in {ErrRead, ErrWrite})
       => /\ call[t].llmCalls = 0
          /\ call[t].upstream = "none"
          /\ call[t].events = <<>>
          /\ msgFile = call[t].pre
          /\ reqFile = call[t].preReq
    /\ (call[t].op = "processUserMessage" /\ pc[t] = "llm")
       => /\ Len(msgFile) = Len(call[t].pre) + 1
          /\ IsPrefix(call[t].pre, msgFile)
          /\ msgFile[Len(msgFile)].content = call[t].content
          /\ msgFile[Len(msgFile)].role = call[t].role
          /\ call[t].events = <<"user turn", "request posted">>

\* C32 witness: a call has ended because the write of its user turn failed
C32_Witness ==
  \E t \in Tasks :
    /\ Finished(t, "processUserMessage")
    /\ call[t].error = ErrWrite
    /\ call[t].content = "a"

(***************************************************************************)
(* Overlapping addMessage and clearMessages calls on a store that holds    *)
(* the welcome turn                                                        *)
(***************************************************************************)
\* the record of the welcome turn that clearAllMessages leaves in an empty store
WelcomeRecord == NewMessage(<<>>, TurnOf(InitialMessage, "assistant"))

RaceInit ==
  /\ msgFile = <<WelcomeRecord>>
  /\ reqFile = <<>>
  /\ requestStorage = FALSE
  /\ additionalModel = Undefined
  /\ pc = [t \in Tasks |-> "idle"]
  /\ call = [t \in Tasks |-> Idle]
  /\ lastId = 1

\* the turn that the appends of these runs add
UserTurn == CHOOSE m \in TurnFields : m.role = "user"

\* no append in flight is about to write more records than the bound of the model
WritesBounded == \A u \in Tasks : Len(call[u].toWrite) <= MaxLen

\* appends of a turn other than the welcome turn, and clears, in any interleaving
RaceNext ==
  \E t \in Tasks :
    \/ WritesBounded /\ AppendStart(t, UserTurn)
    \/ AppendRead(t)
    \/ AppendWrite(t)
    \/ ClearStart(t)
    \/ ClearWrite(t)
    \/ Return(t)

RaceSpec == RaceInit /\ [][RaceNext]_vars

\* C33: once a clear and an append that overlapped it have both completed, the
\* store holds no record that was in it before the clear; here the welcome record,
\* which is in the store at the start and which no append of these runs adds
C33_ClearNotUndone ==
  \A t, u \in Tasks :
    (Finished(t, "clear") /\ Finished(u, "append"))
    => \A i \in 1..Len(msgFile) : msgFile[i] # WelcomeRecord

(***************************************************************************)
(* clearAllMessages with clears that may fail, after turns of one kind     *)
(***************************************************************************)
\* processUserMessage of role 'user' answered with a valid completion, and clearAllMessages
\* whose clearMessages calls may throw; one call at a time
ResetNext ==
  \E t \in Tasks :
    \/ \E userContent \in {"", "a"} : Alone(t) /\ Room /\ ProcessStart(t, userContent, "user")
    \/ UserRead(t)
    \/ UserWrite(t)
    \/ LoadSystemPrompt(t, TRUE)
    \/ HistoryRead(t)
    \/ LLMResponds(t, ValidCompletion)
    \/ RequestRead(t)
    \/ RequestWrite(t)
    \/ AssistantRead(t)
    \/ AssistantWrite(t)
    \/ Alone(t) /\ ResetStart(t)
    \/ ResetMessagesWrite(t)
    \/ ResetMessagesWriteFails(t)
    \/ ResetRequestsWrite(t)
    \/ ResetRequestsWriteFails(t)
    \/ \E loaded \in BOOLEAN : LoadInitialMessage(t, loaded)
    \/ WelcomeRead(t)
    \/ WelcomeWrite(t)
    \/ GetRead(t)
    \/ Return(t)

ResetSpec == Init /\ [][ResetNext]_vars

\* C34: in clearAllMessages the welcome turn is loaded and appended only when both
\* clears have completed: by then no clear is in flight, none has failed and both
\* stores are empty; and a clearAllMessages in which a clear failed ends with that
\* error, without the welcome content loaded and without a turn added to the store
C34_WelcomeAfterBothClears ==
  \A t \in Tasks :
    call[t].op = "clearAllMessages"
    => /\ pc[t] \in {"welcome_prompt", "welcome_read", "welcome_write"}
          => /\ call[t].pending = {}
             /\ call[t].error = NoError
             /\ msgFile = <<>>
             /\ reqFile = <<>>
       /\ call[t].welcomeLoaded => call[t].error = NoError
       /\ (pc[t] = "done" /\ call[t].error # NoError)
          => /\ call[t].error = ErrWrite
             /\ ~call[t].welcomeLoaded
             /\ call[t].list = <<>>
             /\ msgFile \in {<<>>, call[t].pre}
             /\ reqFile \in {<<>>, call[t].preReq}

\* C34 witness: a reset over non-empty stores has ended with the error of its
\* request clear, after its message clear was done
C34_Witness ==
  \E t \in Tasks :
    /\ Finished(t, "clearAllMessages")
    /\ call[t].error = ErrWrite
    /\ call[t].pre # <<>>
    /\ msgFile = <<>>
    /\ reqFile # <<>>

(***************************************************************************)
(* Overlapping processUserMessage calls on a service without request       *)
(* storage                                                                 *)
(***************************************************************************)
\* processUserMessage calls of role 'user' in any interleaving, each caller with a
\* content of its own; the append of the user turn may fail, the system prompt loads, and the completion endpoint fails
\* or answers with a valid completion
TurnsNext ==
  \E t \in Tasks :
    \/ Len(msgFile) < MaxLen /\ ProcessStart(t, IF t = "t1" THEN "a" ELSE "b", "user")
    \/ UserRead(t)
    \/ UserReadFails(t)
    \/ UserWrite(t)
    \/ UserWriteFails(t)
    \/ LoadSystemPrompt(t, TRUE)
    \/ HistoryRead(t)
    \/ LLMFails(t)
    \/ LLMResponds(t, ValidCompletion)
    \/ AssistantRead(t)
    \/ AssistantWrite(t)
    \/ Return(t)

TurnsSpec == StoreInit /\ [][TurnsNext]_vars

\* C35: with overlapping processUserMessage calls, the store that a call writes with
\* its assistant turn holds that call's user turn directly before the assistant
\* turn, and the messages that the call sent upstream end with its user turn
C35_AssistantTurnFollowsUserTurn ==
  [][\A t \in Tasks :
       AssistantWrite(t)
       => LET n == Len(msgFile')
          IN  /\ n >= 2
              /\ msgFile'[n].role = "assistant"
              /\ msgFile'[n - 1].role = call[t].role
              /\ msgFile'[n - 1].content = call[t].content
              /\ call[t].messages[Len(call[t].messages)] =
                   [role |-> call[t].role, content |-> call[t].content]]_vars

\* C36: with calls of the store one at a time, an append leaves every record of the
\* store unchanged and in place and adds exactly one record at the end, and a read
\* leaves the store as it was
C36_AppendOnly ==
  \A t \in Tasks :
    /\ Finished(t, "append")
       => /\ Len(msgFile) = Len(call[t].pre) + 1
          /\ \A i \in 1..Len(call[t].pre) : msgFile[i] = call[t].pre[i]
    /\ Finished(t, "get") => msgFile = call[t].pre

\* C36 witness: an append has completed on a store that held a record
C36_Witness ==
  \E t \in Tasks : Finished(t, "append") /\ Len(call[t].pre) = 1 /\ Len(msgFile) = 2

\* C37: the title of the entry that a processUserMessage call adds to the Request
\* Store is made from the content that the call was given, whatever its role: its
\* first five words, with '...' when the content is longer (a content of the model
\* is one word, so the title is the content, without '...')
C37_TitleFromTriggeringTurn ==
  \A t \in Tasks :
    (/\ Finished(t, "processUserMessage")
     /\ requestStorage
     /\ \E i \in 1..Len(call[t].events) : call[t].events[i] = "request entry")
    => reqFile[Len(reqFile)].title = [words |-> call[t].content, ellipsis |-> FALSE]

(***************************************************************************)
(* A store constructed over a path that names no file: the constructor     *)
(* calls ensureFileExists and does not await it                            *)
(***************************************************************************)
\* the error of a readFile on a path that names no file
ErrNoEnt == "ENOENT: no such file or directory"

\* ensureFileExists: fs.access returns, or throws and writeFile is issued
EnsureAccess(t) ==
  /\ pc[t] = "ensure_access"
  /\ pc' = [pc EXCEPT ![t] = IF Exists(msgFile) THEN "done" ELSE "ensure_write"]
  /\ UNCHANGED <<msgFile, reqFile, requestStorage, additionalModel, call, lastId>>

\* ensureFileExists: writeFile(filePath, '[]') is done
EnsureWrite(t) ==
  /\ pc[t] = "ensure_write"
  /\ msgFile' = <<>>
  /\ pc' = [pc EXCEPT ![t] = "done"]
  /\ UNCHANGED <<reqFile, requestStorage, additionalModel, call, lastId>>

\* addMessage: readFile throws as there is no file, and so do readMessages and
\* addMessage
AppendReadMissing(t) ==
  /\ pc[t] = "append_read"
  /\ ~Exists(msgFile)
  /\ call' = [call EXCEPT ![t].error = ErrNoEnt]
  /\ pc' = [pc EXCEPT ![t] = "done"]
  /\ UNCHANGED <<msgFile, reqFile, requestStorage, additionalModel, lastId>>

\* getMessages: readFile throws as there is no file, and so do readMessages and
\* getMessages
GetReadMissing(t) ==
  /\ pc[t] = "get_read"
  /\ ~Exists(msgFile)
  /\ call' = [call EXCEPT ![t].error = ErrNoEnt]
  /\ pc' = [pc EXCEPT ![t] = "done"]
  /\ UNCHANGED <<msgFile, reqFile, requestStorage, additionalModel, lastId>>

\* state after new FileMessageStorage(filePath) on a path that names no file: the
\* ensureFileExists of the constructor is in flight, as task t1
StartupInit ==
  /\ msgFile = <<Missing>>
  /\ reqFile = <<>>
  /\ requestStorage = FALSE
  /\ additionalModel = Undefined
  /\ pc = [t \in Tasks |-> IF t = "t1" THEN "ensure_access" ELSE "idle"]
  /\ call = [t \in Tasks |-> IF t = "t1" THEN [Idle EXCEPT !.op = "ensureFileExists"]
                                        ELSE Idle]
  /\ lastId = 0

\* no other call of the store's interface is in flight or unreturned
AloneButEnsure(t) ==
  \A u \in Tasks \ {t} : pc[u] = "idle" \/ call[u].op = "ensureFileExists"

\* calls of the store's interface, one at a time, from the moment the constructor
\* has returned
StartupNext ==
  \E t \in Tasks :
    \/ EnsureAccess(t)
    \/ EnsureWrite(t)
    \/ \E message \in TurnFields : AloneButEnsure(t) /\ AppendStart(t, message)
    \/ AppendRead(t)
    \/ AppendReadMissing(t)
    \/ AppendWrite(t)
    \/ \E reverseOrder \in BOOLEAN : AloneButEnsure(t) /\ GetStart(t, Null, reverseOrder)
    \/ GetRead(t)
    \/ GetReadMissing(t)
    \/ Return(t)

StartupSpec == StartupInit /\ [][StartupNext]_vars

\* C38: on a store constructed over a path that names no file, no read and no append
\* issued after construction fails, a read before any append returns the empty
\* sequence, an append on the store without records returns id 1, and
\* ensureFileExists writes its '[]' only while there is no file
C38_EmptyStoreFromConstruction ==
  \A t \in Tasks :
    /\ (Finished(t, "get") \/ Finished(t, "append")) => call[t].error = NoError
    /\ (Finished(t, "get") /\ lastId = 0) => call[t].list = <<>>
    /\ (Finished(t, "append") /\ ReadMessages(call[t].pre) \in {<<>>, <<Missing>>})
       => call[t].result.id = 1
    /\ pc[t] = "ensure_write" => ~Exists(msgFile)

\* the steps of the processUserMessage call of task t after its start: each is the
\* completion of a file operation or of the upstream request
TurnStep(t) ==
  \/ UserRead(t)
  \/ UserReadFails(t)
  \/ UserWrite(t)
  \/ UserWriteFails(t)
  \/ LoadSystemPrompt(t, TRUE)
  \/ HistoryRead(t)
  \/ LLMFails(t)
  \/ LLMResponds(t, ValidCompletion)
  \/ AssistantRead(t)
  \/ AssistantWrite(t)

\* overlapping processUserMessage calls whose file operations and upstream requests
\* all return or fail in the end: the event loop resumes every call whose awaited
\* operation has settled
TurnsLiveSpec == TurnsSpec /\ \A t \in Tasks : WF_vars(TurnStep(t))

\* C39: every processUserMessage call comes to its end, with its result or with an
\* error, whatever the other call does
C39_TurnCompletes ==
  \A t \in Tasks : (call[t].op = "processUserMessage") ~> (pc[t] = "done")

\* C39 witness: a call has returned its assistant turn while the other call is
\* waiting for its upstream request
C39_Witness ==
  \E t, u \in Tasks :
    /\ Finished(t, "processUserMessage")
    /\ call[t].error = NoError
    /\ call[u].op = "processUserMessage"
    /\ pc[u] = "llm"

====
